---- MODULE Spec2Model ----
(***************************************************************************)
(* GitAlong matching backend (src/backend/main.py): the four request       *)
(* handlers sync_user, get_recommendations, record_swipe and get_analytics *)
(* over the tables user_profiles, swipe_history and matches.               *)
(*                                                                         *)
(* Scores are Python floats in the source; here they are exact rationals   *)
(* in lowest terms, [n |-> numerator, d |-> denominator > 0], so that      *)
(* equal values are equal records.                                         *)
(***************************************************************************)
EXTENDS Integers, Sequences, FiniteSets, TLC

VARIABLES user_profiles, swipe_history, matches, last

vars == <<user_profiles, swipe_history, matches, last>>

(***************************************************************************)
(* Bounds and input alphabets                                              *)
(***************************************************************************)
\* Largest number of rows of swipe_history the model lets record_swipe reach.
MaxSwipes == 3

\* User identities, listed in ascending (lexicographic) order.
UserIds == <<"alice", "bob", "carol">>

Users == {UserIds[i] : i \in DOMAIN UserIds}

\* Values of int(datetime.utcnow().timestamp()) a swipe may be recorded at.
Seconds == {0, 1}

\* An absent Optional[str] (None); falsy like the empty string.
NoUser == ""

\* RecommendationRequest.exclude_user_ids values drawn by get_recommendations.
ExcludeLists == {<<>>, <<"bob">>, <<"carol", "alice">>}

\* RecommendationRequest.max_recommendations values.
Limits == {-1, 0, 1, 51}

\* SwipeRequest.direction values.
Directions == {"right", "left"}

\* SwipeRequest.timestamp values: an ISO-8601 text is its date-time part and
\* its suffix ("Z", "+00:00", "" or anything else).
Timestamps == {[datetime |-> 7, suffix |-> "Z"], [datetime |-> 7, suffix |-> "?"]}

(***************************************************************************)
(* Exact rational arithmetic                                               *)
(***************************************************************************)
Abs(x) == IF x < 0 THEN -x ELSE x

RECURSIVE GCD(_, _)
GCD(a, b) == IF b = 0 THEN a ELSE GCD(b, a % b)

Rat(n, d) ==
    LET g == GCD(Abs(n), Abs(d))
        s == IF d < 0 THEN -1 ELSE 1
    IN  [n |-> (s * n) \div g, d |-> (s * d) \div g]

Zero == Rat(0, 1)

One == Rat(1, 1)

RAdd(a, b) ==
    LET g == GCD(a.d, b.d)
        l == (a.d \div g) * b.d
    IN  Rat(a.n * (l \div a.d) + b.n * (l \div b.d), l)

RMul(a, b) ==
    LET g1 == GCD(Abs(a.n), b.d)
        g2 == GCD(Abs(b.n), a.d)
    IN  Rat((a.n \div g1) * (b.n \div g2), (a.d \div g2) * (b.d \div g1))

RNeg(a) == [n |-> -(a.n), d |-> a.d]

\* a < b
RLess(a, b) == RAdd(a, RNeg(b)).n < 0

\* a <= b
RLeq(a, b) == RAdd(a, RNeg(b)).n <= 0

RMin(a, b) == IF RLess(b, a) THEN b ELSE a

Range(s) == {s[i] : i \in DOMAIN s}

Min(a, b) == IF a < b THEN a ELSE b

Max(a, b) == IF a > b THEN a ELSE b

\* All orders in which the rows of S can come back from an unordered SELECT.
Orders(S) ==
    {o \in [1..Cardinality(S) -> S] : \A x \in S : \E i \in DOMAIN o : o[i] = x}

(***************************************************************************)
(* Request payloads                                                        *)
(***************************************************************************)
\* A JSON object is a set of <<key, value>> pairs; Get is dict.get(key, default).
Get(dict, key, default) ==
    IF \E p \in dict : p[1] = key
    THEN (CHOOSE p \in dict : p[1] = key)[2]
    ELSE default

\* Optional[Dict]: <<>> is None, <<dict>> is a value. OrEmpty is `x or {}`.
OrEmpty(opt) == IF opt = <<>> THEN {} ELSE opt[1]

\* UserSyncRequest.profile_data / github_data payloads drawn by sync_user.
BackendPayload ==
    [bio |-> "backend", tech_stack |-> <<"python", "docker">>,
     github_data |-> << {<<"followers", 100>>, <<"public_repos", 50>>} >>]

EmptyPayload == [bio |-> "", tech_stack |-> <<>>, github_data |-> <<>>]

FrontendPayload ==
    [bio |-> "frontend", tech_stack |-> <<"docker", "docker", "go">>,
     github_data |-> << {<<"followers", 5000>>} >>]

(***************************************************************************)
(* Embedding provider and vector similarity                                *)
(***************************************************************************)
\* sentence_transformer.encode: a fixed vector per text (stand-in provider
\* with integer vectors of integer length).
Encode(text) ==
    CASE text = "backend"  -> <<1, 0>>
      [] text = "frontend" -> <<-3, 4>>
      [] OTHER             -> <<0, 1>>

Dot(a, b) == a[1] * b[1] + a[2] * b[2]

ISqrt(n) == CHOOSE k \in 0..n : k * k = n

Norm(a) == ISqrt(Dot(a, a))

\* sklearn cosine_similarity of two vectors: the normalised dot product.
CosineSimilarity(a, b) == Rat(Dot(a, b), Norm(a) * Norm(b))

(***************************************************************************)
(* Tables                                                                  *)
(***************************************************************************)
\* fetchone() of SELECT * FROM user_profiles WHERE id = :user_id, as a set
\* (empty when no row matches; id is the primary key).
ProfileRows(profiles, user_id) == {p \in profiles : p.id = user_id}

\* tuple(request.exclude_user_ids) or ('',)
ExcludeIds(exclude_user_ids) ==
    IF exclude_user_ids = <<>> THEN {""} ELSE Range(exclude_user_ids)

\* The candidate query without its `id != :user_id` condition.
OtherProfilesWithSelf(profiles, user_id, exclude_user_ids) ==
    {p \in profiles : p.id \notin ExcludeIds(exclude_user_ids)}

\* SELECT * FROM user_profiles WHERE id != :user_id AND id NOT IN :exclude_ids
OtherProfiles(profiles, user_id, exclude_user_ids) ==
    {p \in profiles : p.id # user_id /\ p.id \notin ExcludeIds(exclude_user_ids)}

(***************************************************************************)
(* Signal scores                                                           *)
(***************************************************************************)
\* The overlap divided by the length of the candidate's stack.
TechOverlapScoreByCandidate(user_stack, stack) ==
    Rat(Cardinality(Range(user_stack) \cap Range(stack)), Max(Len(stack), 1))

TechOverlapScore(user_stack, stack) ==
    Rat(Cardinality(Range(user_stack) \cap Range(stack)), Max(Len(user_stack), 1))

BioSimilarity(user_bio, bio) ==
    IF user_bio # "" /\ bio # ""
    THEN CosineSimilarity(Encode(user_bio), Encode(bio))
    ELSE Zero

GithubScore(github_stats) ==
    IF github_stats # {}
    THEN LET followers == Get(github_stats, "followers", 0)
             repos == Get(github_stats, "public_repos", 0)
         IN  RMin(Rat(followers + repos * 10, 1000), One)
    ELSE Zero

\* SELECT COUNT(*) FROM swipe_history WHERE swiper_id = :liked_user
\*   AND target_id IN :user_likes AND direction = 'right'
CountLikes(history, liked_user, user_likes) ==
    Cardinality({i \in DOMAIN history :
                    /\ history[i].swiper_id = liked_user
                    /\ history[i].target_id \in Range(user_likes)
                    /\ history[i].direction = "right"})

\* The loop `for liked_user in users_who_liked: overlap += COUNT(*)`.
RECURSIVE Overlap(_, _, _)
Overlap(history, users_who_liked, user_likes) ==
    IF users_who_liked = <<>> THEN 0
    ELSE CountLikes(history, Head(users_who_liked), user_likes)
         + Overlap(history, Tail(users_who_liked), user_likes)

\* The score without its min(..., 1.0).
calculate_collaborative_score_unclamped(user_id, target_id, history) ==
    LET LikedTarget(r) == r.target_id = target_id /\ r.direction = "right"
        LikedByUser(r) == r.swiper_id = user_id /\ r.direction = "right"
        liked_rows == SelectSeq(history, LikedTarget)
        like_rows == SelectSeq(history, LikedByUser)
        users_who_liked == [i \in DOMAIN liked_rows |-> liked_rows[i].swiper_id]
        user_likes == [i \in DOMAIN like_rows |-> like_rows[i].target_id]
    IN  IF users_who_liked = <<>> THEN Zero
        ELSE IF user_likes = <<>> THEN Zero
        ELSE Rat(Overlap(history, users_who_liked, user_likes),
                 Len(users_who_liked) * Len(user_likes))

calculate_collaborative_score(user_id, target_id, history) ==
    LET LikedTarget(r) == r.target_id = target_id /\ r.direction = "right"
        LikedByUser(r) == r.swiper_id = user_id /\ r.direction = "right"
        liked_rows == SelectSeq(history, LikedTarget)
        like_rows == SelectSeq(history, LikedByUser)
        users_who_liked == [i \in DOMAIN liked_rows |-> liked_rows[i].swiper_id]
        user_likes == [i \in DOMAIN like_rows |-> like_rows[i].target_id]
    IN  IF users_who_liked = <<>> THEN Zero
        ELSE IF user_likes = <<>> THEN Zero
        ELSE RMin(Rat(Overlap(history, users_who_liked, user_likes),
                      Len(users_who_liked) * Len(user_likes)), One)

(***************************************************************************)
(* Aggregation, justification, ranking                                     *)
(***************************************************************************)
\* The weights of the overall score, in hundredths.
W_TECH == 30

W_BIO == 25

W_GITHUB == 20

W_COLLAB == 25

\* The weighted sum with the weights 0.35 / 0.25 / 0.20 / 0.20.
OverallScoreOtherWeights(tech, bio, github, collab) ==
    RAdd(RAdd(RAdd(RMul(tech, Rat(35, 100)),
                   RMul(bio, Rat(25, 100))),
              RMul(github, Rat(20, 100))),
         RMul(collab, Rat(20, 100)))

OverallScore(tech, bio, github, collab) ==
    RAdd(RAdd(RAdd(RMul(tech, Rat(W_TECH, 100)),
                   RMul(bio, Rat(W_BIO, 100))),
              RMul(github, Rat(W_GITHUB, 100))),
         RMul(collab, Rat(W_COLLAB, 100)))

\* The reasons cut to three, with a generic reason when none triggers.
MatchReasonsCapped(tech, bio, github, collab) ==
    LET all ==
            (IF RLess(Rat(5, 10), tech) THEN <<"Strong tech stack overlap">> ELSE <<>>)
            \o (IF RLess(Rat(7, 10), bio)
                THEN <<"Similar interests and background">> ELSE <<>>)
            \o (IF RLess(Rat(5, 10), github)
                THEN <<"Active GitHub contributor">> ELSE <<>>)
            \o (IF RLess(Rat(6, 10), collab)
                THEN <<"Similar to users you've liked">> ELSE <<>>)
    IN  IF all = <<>> THEN <<"Potential match">> ELSE SubSeq(all, 1, Min(Len(all), 3))

MatchReasons(tech, bio, github, collab) ==
    (IF RLess(Rat(5, 10), tech) THEN <<"Strong tech stack overlap">> ELSE <<>>)
    \o (IF RLess(Rat(7, 10), bio)
        THEN <<"Similar interests and background">> ELSE <<>>)
    \o (IF RLess(Rat(5, 10), github) THEN <<"Active GitHub contributor">> ELSE <<>>)
    \o (IF RLess(Rat(6, 10), collab)
        THEN <<"Similar to users you've liked">> ELSE <<>>)

\* One iteration of the loop over other_profiles: the MatchScore of `profile`.
Score(user_profile, profile, history) ==
    LET tech == TechOverlapScore(user_profile.tech_stack, profile.tech_stack)
        bio == BioSimilarity(user_profile.bio, profile.bio)
        github == GithubScore(profile.github_stats)
        collab == calculate_collaborative_score(user_profile.id, profile.id, history)
        overall == OverallScore(tech, bio, github, collab)
    IN  [target_user_id |-> profile.id,
         similarity_score |-> overall,
         tech_overlap_score |-> tech,
         bio_similarity_score |-> bio,
         github_activity_score |-> github,
         collaborative_score |-> collab,
         overall_score |-> overall,
         match_reasons |-> MatchReasons(tech, bio, github, collab)]

\* An unstable placement: before the elements whose score equals its own.
RECURSIVE InsertSortedUnstable(_, _)
InsertSortedUnstable(sorted, x) ==
    IF sorted = <<>> THEN <<x>>
    ELSE IF RLeq(Head(sorted).overall_score, x.overall_score)
         THEN <<x>> \o sorted
         ELSE <<Head(sorted)>> \o InsertSortedUnstable(Tail(sorted), x)

\* Place of x in a list sorted by overall_score descending: after every
\* element whose score is >= its own (list.sort is stable).
RECURSIVE InsertSorted(_, _)
InsertSorted(sorted, x) ==
    IF sorted = <<>> THEN <<x>>
    ELSE IF RLess(Head(sorted).overall_score, x.overall_score)
         THEN <<x>> \o sorted
         ELSE <<Head(sorted)>> \o InsertSorted(Tail(sorted), x)

\* recommendations.sort(key=lambda x: x.overall_score, reverse=True)
RECURSIVE SortByOverall(_)
SortByOverall(recs) ==
    IF recs = <<>> THEN <<>>
    ELSE InsertSorted(SortByOverall(SubSeq(recs, 1, Len(recs) - 1)), recs[Len(recs)])

\* recommendations[:k], Python slice semantics (a negative k counts from the end).
Slice(recs, k) ==
    IF k >= 0 THEN SubSeq(recs, 1, Min(k, Len(recs)))
    ELSE SubSeq(recs, 1, Max(Len(recs) + k, 0))

RECURSIVE SumOverall(_)
SumOverall(recs) ==
    IF recs = <<>> THEN Zero
    ELSE RAdd(Head(recs).overall_score, SumOverall(Tail(recs)))

Analytics(other_profiles, recs) ==
    [total_profiles_analyzed |-> Len(other_profiles),
     recommendations_generated |-> Len(recs),
     average_score |-> IF recs # <<>>
                       THEN RMul(SumOverall(recs), Rat(1, Len(recs)))
                       ELSE Zero]

(***************************************************************************)
(* Timestamps                                                              *)
(***************************************************************************)
\* request.timestamp.replace('Z', '+00:00')
ReplaceZ(ts) == IF ts.suffix = "Z" THEN [ts EXCEPT !.suffix = "+00:00"] ELSE ts

\* Whether datetime.fromisoformat accepts the text (else ValueError).
IsIsoFormat(ts) == ts.suffix \in {"", "+00:00"}

\* datetime.fromisoformat: a naive or a UTC-aware datetime.
FromIsoFormat(ts) ==
    [datetime |-> ts.datetime, tzinfo |-> IF ts.suffix = "" THEN "naive" ELSE "utc"]

(***************************************************************************)
(* State machine                                                           *)
(***************************************************************************)
\* What the last handler call returned: the request (kept for
\* get_recommendations), the HTTP status and detail the caller sees, the status of the HTTPException raised inside the handler's try block
\* (0 when none), the candidates scored in read order, the identities whose
\* bios the call passed to the embedding provider, in order, and the
\* response body.
Response(op, request, status, detail, raised, scored, encoded, body) ==
    [op |-> op, request |-> request, status |-> status, detail |-> detail,
     raised |-> raised, scored |-> scored, encoded |-> encoded, body |-> body]

Init ==
    /\ user_profiles = {}
    /\ swipe_history = <<>>
    /\ matches = {}
    /\ last = Response("none", <<>>, 0, "", 0, <<>>, <<>>, <<>>)

\* The row written by sync_user's UPDATE or INSERT.
ProfileRow(request) ==
    [id |-> request.user_id,
     bio |-> request.profile_data.bio,
     tech_stack |-> request.profile_data.tech_stack,
     github_stats |-> OrEmpty(request.github_data)]

sync_user(request) ==
    LET existing_profile == ProfileRows(user_profiles, request.user_id)
    IN  /\ user_profiles' = (user_profiles \ existing_profile) \cup {ProfileRow(request)}
        /\ last' = Response("sync_user", <<>>, 200, "", 0, <<>>, <<>>,
                            [success |-> TRUE,
                             message |-> "User profile synced successfully"])
        /\ UNCHANGED <<swipe_history, matches>>

\* The recommendations list after the loop, the sort and the slice, for the
\* candidates in the order `other_profiles` they were fetched in.
Recommendations(user_profile, other_profiles, history, max_recommendations) ==
    Slice(SortByOverall([i \in DOMAIN other_profiles |->
                            Score(user_profile, other_profiles[i], history)]),
          max_recommendations)

\* The identities whose bios the loop hands to sentence_transformer.encode:
\* for every candidate with a bio, when the requester has one, the requester's
\* bio and the candidate's are encoded together; nothing is kept between
\* iterations or calls.
RECURSIVE Encoded(_, _)
Encoded(user_profile, other_profiles) ==
    IF other_profiles = <<>> THEN <<>>
    ELSE (IF user_profile.bio # "" /\ Head(other_profiles).bio # ""
          THEN <<user_profile.id, Head(other_profiles).id>>
          ELSE <<>>)
         \o Encoded(user_profile, Tail(other_profiles))

\* The handler's outcome for a request; `order` is the order in which the
\* second SELECT returned its rows. HTTPException(404) is raised inside the
\* try block and caught by `except Exception`, which raises the 500.
RecommendationResponse(request, profiles, history, order) ==
    LET found == ProfileRows(profiles, request.user_id)
    IN  IF found = {}
        THEN Response("get_recommendations", request, 500,
                      "Failed to get recommendations", 404, <<>>, <<>>, <<>>)
        ELSE LET user_profile == CHOOSE p \in found : TRUE
                 recs == Recommendations(user_profile, order, history,
                                         request.max_recommendations)
             IN  Response("get_recommendations", request, 200, "", 0,
                          [i \in DOMAIN order |-> order[i].id],
                          Encoded(user_profile, order),
                          [user_id |-> request.user_id,
                           recommendations |-> recs,
                           model_version |-> "2.0.0",
                           analytics |-> Analytics(order, recs)])

get_recommendations(request) ==
    /\ \E order \in Orders(OtherProfiles(user_profiles, request.user_id,
                                         request.exclude_user_ids)) :
          last' = RecommendationResponse(request, user_profiles, swipe_history, order)
    /\ UNCHANGED <<user_profiles, swipe_history, matches>>

\* f"{swiper_id}_{target_id}_{int(datetime.utcnow().timestamp())}"
SwipeId(request, now) == <<request.swiper_id, request.target_id, now>>

SwipeRow(request, now) ==
    [id |-> SwipeId(request, now),
     swiper_id |-> request.swiper_id,
     target_id |-> request.target_id,
     direction |-> request.direction,
     target_type |-> request.target_type,
     timestamp |-> FromIsoFormat(ReplaceZ(request.timestamp))]

\* An insert that replaces the earlier swipes of the same swiper on the
\* same target.
InsertSwipeReplacing(history, row) ==
    LET Other(r) == r.swiper_id # row.swiper_id \/ r.target_id # row.target_id
    IN  Append(SelectSeq(history, Other), row)

\* INSERT INTO swipe_history ... followed by commit.
InsertSwipe(history, row) == Append(history, row)

\* The INSERT fails when the timestamp does not parse (ValueError while the
\* parameters are built) or the primary key is taken; both roll back.
record_swipe(request, now) ==
    /\ Len(swipe_history) < MaxSwipes
    /\ IF /\ IsIsoFormat(ReplaceZ(request.timestamp))
          /\ \A i \in DOMAIN swipe_history : swipe_history[i].id # SwipeId(request, now)
       THEN /\ swipe_history' = InsertSwipe(swipe_history, SwipeRow(request, now))
            /\ last' = Response("record_swipe", <<>>, 200, "", 0, <<>>, <<>>,
                                [success |-> TRUE,
                                 message |-> "Swipe recorded successfully"])
       ELSE /\ swipe_history' = swipe_history
            /\ last' = Response("record_swipe", <<>>, 500,
                                "Failed to record swipe", 0, <<>>, <<>>, <<>>)
    /\ UNCHANGED <<user_profiles, matches>>

AnalyticsBody(user_id, profiles, history, match_rows) ==
    IF user_id # NoUser
    THEN LET swipe_count ==
                 Cardinality({i \in DOMAIN history : history[i].swiper_id = user_id})
             match_count ==
                 Cardinality({m \in match_rows : \/ m.contributor_id = user_id
                                                  \/ m.project_owner_id = user_id})
         IN  [user_id |-> user_id,
              swipe_count |-> swipe_count,
              match_count |-> match_count,
              match_rate |-> Rat(match_count, Max(swipe_count, 1))]
    ELSE LET total_users == Cardinality(profiles)
             total_matches == Cardinality(match_rows)
             total_swipes == Len(history)
         IN  [total_users |-> total_users,
              total_matches |-> total_matches,
              total_swipes |-> total_swipes,
              match_rate |-> Rat(total_matches, Max(total_swipes, 1))]

get_analytics(user_id) ==
    /\ last' = Response("get_analytics", <<>>, 200, "", 0, <<>>, <<>>,
                        AnalyticsBody(user_id, user_profiles, swipe_history, matches))
    /\ UNCHANGED <<user_profiles, swipe_history, matches>>

\* One handler call, with the requests drawn from the given sets.
Step(SyncRequests, RecommendationRequests, SwipeRequests, Clock, AnalyticsUsers) ==
    \/ \E request \in SyncRequests : sync_user(request)
    \/ \E request \in RecommendationRequests : get_recommendations(request)
    \/ \E request \in SwipeRequests, now \in Clock : record_swipe(request, now)
    \/ \E user_id \in AnalyticsUsers : get_analytics(user_id)

UserSyncRequest(user_id, payload) ==
    [user_id |-> user_id,
     profile_data |-> [bio |-> payload.bio, tech_stack |-> payload.tech_stack],
     github_data |-> payload.github_data]

SwipeRequest(swiper_id, target_id, direction, timestamp) ==
    [swiper_id |-> swiper_id, target_id |-> target_id, direction |-> direction,
     target_type |-> "user", timestamp |-> timestamp]

\* Every requester, exclusion list and limit over profiles that come and
\* change, with a few swipes.
Next ==
    Step({UserSyncRequest("alice", BackendPayload),
          UserSyncRequest("bob", BackendPayload),
          UserSyncRequest("bob", FrontendPayload),
          UserSyncRequest("carol", BackendPayload),
          UserSyncRequest("carol", EmptyPayload)},
         [user_id : Users, exclude_user_ids : ExcludeLists,
          max_recommendations : Limits],
         {SwipeRequest("alice", "bob", "right", t) : t \in Timestamps}
             \cup {SwipeRequest("bob", "alice", "left", t) : t \in Timestamps},
         {0},
         {"alice", NoUser})

Spec == Init /\ [][Next]_vars

\* Three synced profiles and a growing swipe history, ranked with the
\* default request.
InitHistory ==
    /\ user_profiles = {ProfileRow(UserSyncRequest(u, BackendPayload)) : u \in Users}
    /\ swipe_history = <<>>
    /\ matches = {}
    /\ last = Response("none", <<>>, 0, "", 0, <<>>, <<>>, <<>>)

NextHistory ==
    Step({UserSyncRequest("alice", BackendPayload)},
         [user_id : Users, exclude_user_ids : {<<>>}, max_recommendations : {20}],
         {SwipeRequest("alice", "carol", "right", [datetime |-> 7, suffix |-> "Z"]),
          SwipeRequest("bob", "carol", "right", [datetime |-> 7, suffix |-> "Z"]),
          SwipeRequest("alice", "bob", "right", [datetime |-> 7, suffix |-> "Z"]),
          SwipeRequest("bob", "carol", "left", [datetime |-> 7, suffix |-> "Z"])},
         Seconds,
         {NoUser})

SpecHistory == InitHistory /\ [][NextHistory]_vars

(***************************************************************************)
(* Properties                                                              *)
(***************************************************************************)
\* The last call was get_recommendations and it returned a page.
RecPage == last.op = "get_recommendations" /\ last.status = 200

\* The returned recommendations (meaningful when RecPage).
Recs == last.body.recommendations

\* C1: the page returned by get_recommendations never contains the
\* requester's own identity nor an identity listed in exclude_user_ids.
C1_NoSelfNoExcluded ==
    RecPage =>
        \A i \in DOMAIN Recs :
            /\ Recs[i].target_user_id # last.request.user_id
            /\ Recs[i].target_user_id \notin Range(last.request.exclude_user_ids)

\* A non-empty page was returned although the requester and an excluded
\* identity both have profiles in storage.
C1_Witness ==
    /\ RecPage
    /\ Recs # <<>>
    /\ \E p \in user_profiles :
          /\ p.id \in Range(last.request.exclude_user_ids)
          /\ p.id # last.request.user_id

\* Position of an identity in ascending identity order.
IdIndex(id) == CHOOSE i \in DOMAIN UserIds : UserIds[i] = id

\* Position of a candidate in the order its profile was read from storage.
ReadIndex(id) == CHOOSE i \in DOMAIN last.scored : last.scored[i] = id

\* C2 as stated: the page is ordered by overall score descending, and
\* candidates with equal overall score appear in ascending identity order.
C2_TieByIdentity ==
    RecPage =>
        \A i, j \in DOMAIN Recs :
            i < j =>
                /\ RLeq(Recs[j].overall_score, Recs[i].overall_score)
                /\ Recs[i].overall_score = Recs[j].overall_score
                       => IdIndex(Recs[i].target_user_id) < IdIndex(Recs[j].target_user_id)

\* C2 as amended: the page is ordered by overall score descending, and
\* candidates with equal overall score appear in the order in which their
\* profiles were read from storage.
C2_TieByReadOrder ==
    RecPage =>
        \A i, j \in DOMAIN Recs :
            i < j =>
                /\ RLeq(Recs[j].overall_score, Recs[i].overall_score)
                /\ Recs[i].overall_score = Recs[j].overall_score
                       => ReadIndex(Recs[i].target_user_id)
                              < ReadIndex(Recs[j].target_user_id)

\* A page on which two candidates tie and the one read first has the
\* larger identity.
C2_Witness ==
    /\ RecPage
    /\ \E i, j \in DOMAIN Recs :
          /\ i < j
          /\ Recs[i].overall_score = Recs[j].overall_score
          /\ IdIndex(Recs[j].target_user_id) < IdIndex(Recs[i].target_user_id)

\* C3 as stated: a returned page holds at most max_recommendations
\* recommendations, and none when max_recommendations is 0.
C3_AtMostLimit ==
    RecPage =>
        /\ Len(Recs) <= last.request.max_recommendations
        /\ last.request.max_recommendations = 0 => Recs = <<>>

\* C4 as stated: a request whose max_recommendations exceeds 50 is rejected
\* before any candidate is scored and is never answered with a page.
C4_AboveCeilingRejected ==
    (last.op = "get_recommendations" /\ last.request.max_recommendations > 50) =>
        /\ last.status # 200
        /\ last.scored = <<>>

\* C5 as stated: when the requester has no profile the call is rejected
\* before any candidate is scored and the caller receives 404 'User profile
\* not found'.
C5_UnknownRequesterNotFound ==
    (/\ last.op = "get_recommendations"
     /\ ProfileRows(user_profiles, last.request.user_id) = {}) =>
        /\ last.scored = <<>>
        /\ last.status = 404
        /\ last.detail = "User profile not found"

\* Hundred times the weighted sum of a recommendation's four signals.
Weighted(rec, wt, wb, wg, wc) ==
    RAdd(RAdd(RMul(Rat(wt, 1), rec.tech_overlap_score),
              RMul(Rat(wb, 1), rec.bio_similarity_score)),
         RAdd(RMul(Rat(wg, 1), rec.github_activity_score),
              RMul(Rat(wc, 1), rec.collaborative_score)))

\* C6 as stated: overall = 0.35 tech + 0.25 bio + 0.20 activity + 0.20
\* collaborative for every returned candidate.
C6_OverallOtherWeights ==
    RecPage =>
        \A i \in DOMAIN Recs :
            RMul(Rat(100, 1), Recs[i].overall_score) = Weighted(Recs[i], 35, 25, 20, 20)

\* C6 as amended: overall = 0.30 tech + 0.25 bio + 0.20 activity + 0.25
\* collaborative for every returned candidate.
C6_OverallCodeWeights ==
    RecPage =>
        \A i \in DOMAIN Recs :
            RMul(Rat(100, 1), Recs[i].overall_score) = Weighted(Recs[i], 30, 25, 20, 25)

\* A returned candidate whose four signals are pairwise different and whose
\* overall score is not zero.
C6_Witness ==
    /\ RecPage
    /\ \E i \in DOMAIN Recs :
          /\ Cardinality({Recs[i].tech_overlap_score, Recs[i].bio_similarity_score,
                          Recs[i].github_activity_score,
                          Recs[i].collaborative_score}) = 4
          /\ Recs[i].overall_score # Zero

InUnit(x) == RLeq(Zero, x) /\ RLeq(x, One)

\* C7 as stated: each of the four signal scores of every scored pair lies
\* in [0, 1] (a negative cosine similarity is reported as 0).
C7_SignalsInUnitInterval ==
    RecPage =>
        \A i \in DOMAIN Recs :
            /\ InUnit(Recs[i].tech_overlap_score)
            /\ InUnit(Recs[i].bio_similarity_score)
            /\ InUnit(Recs[i].github_activity_score)
            /\ InUnit(Recs[i].collaborative_score)

\* C8 as stated: every recommendation carries between 1 and 3 reasons.
C8_OneToThreeReasons ==
    RecPage =>
        \A i \in DOMAIN Recs :
            Len(Recs[i].match_reasons) >= 1 /\ Len(Recs[i].match_reasons) <= 3

\* Number of the four thresholds a recommendation's signals exceed
\* (x.n / x.d > a / b is x.n * b > a * x.d).
Triggered(rec) ==
    (IF rec.tech_overlap_score.n * 2 > rec.tech_overlap_score.d THEN 1 ELSE 0)
    + (IF rec.bio_similarity_score.n * 10 > 7 * rec.bio_similarity_score.d THEN 1 ELSE 0)
    + (IF rec.github_activity_score.n * 2 > rec.github_activity_score.d THEN 1 ELSE 0)
    + (IF rec.collaborative_score.n * 10 > 6 * rec.collaborative_score.d THEN 1 ELSE 0)

\* C8 as amended: every recommendation carries between 0 and 4 reasons, one
\* for each threshold that triggers (tech > 0.5, bio > 0.7, activity > 0.5,
\* collaborative > 0.6); none when no threshold triggers.
C8_ZeroToFourReasons ==
    RecPage =>
        \A i \in DOMAIN Recs :
            /\ Len(Recs[i].match_reasons) = Triggered(Recs[i])
            /\ Len(Recs[i].match_reasons) \in 0..4

\* A page with a recommendation carrying four reasons and one carrying none.
C8_Witness ==
    /\ RecPage
    /\ \E i \in DOMAIN Recs : Len(Recs[i].match_reasons) = 4
    /\ \E i \in DOMAIN Recs : Recs[i].match_reasons = <<>>

\* C9: the swipe history is append-only: every handler call leaves each
\* record present and unchanged at its place, and the history changes only
\* in a record_swipe call, by one record added at the end.
C9_AppendOnly ==
    [][/\ \A i \in DOMAIN swipe_history :
             /\ i \in DOMAIN swipe_history'
             /\ swipe_history'[i] = swipe_history[i]
       /\ swipe_history' # swipe_history =>
             /\ last'.op = "record_swipe"
             /\ Len(swipe_history') = Len(swipe_history) + 1]_vars

\* Recommendations were served over a history that holds two swipes of the
\* same swiper on the same target.
C9_Witness ==
    /\ RecPage
    /\ \E i, j \in DOMAIN swipe_history :
          /\ i < j
          /\ swipe_history[i].swiper_id = swipe_history[j].swiper_id
          /\ swipe_history[i].target_id = swipe_history[j].target_id

\* R: the identities the requester accepted; T: the identities who accepted
\* the candidate.
Accepted(user_id) ==
    {swipe_history[i].target_id :
        i \in {k \in DOMAIN swipe_history :
                  /\ swipe_history[k].swiper_id = user_id
                  /\ swipe_history[k].direction = "right"}}

Accepters(target_id) ==
    {swipe_history[i].swiper_id :
        i \in {k \in DOMAIN swipe_history :
                  /\ swipe_history[k].target_id = target_id
                  /\ swipe_history[k].direction = "right"}}

\* C10 as stated: the collaborative score is 0.5 when R is empty, otherwise
\* min(|R \cap T| / 5, 1) when |R \cap T| > 0, and 0.3 when |R \cap T| = 0.
C10_NeighbourhoodOverlap ==
    RecPage =>
        \A i \in DOMAIN Recs :
            LET R == Accepted(last.request.user_id)
                T == Accepters(Recs[i].target_user_id)
                c == Cardinality(R \cap T)
            IN  Recs[i].collaborative_score =
                    IF R = {} THEN Rat(1, 2)
                    ELSE IF c > 0 THEN RMin(Rat(c, 5), One)
                    ELSE Rat(3, 10)

\* The rows of the history that are right swipes on the candidate, and the
\* rows that are right swipes by the requester.
LikesOf(target_id) ==
    {k \in DOMAIN swipe_history :
        /\ swipe_history[k].target_id = target_id
        /\ swipe_history[k].direction = "right"}

LikesBy(user_id) ==
    {k \in DOMAIN swipe_history :
        /\ swipe_history[k].swiper_id = user_id
        /\ swipe_history[k].direction = "right"}

\* Pairs (a row liking the candidate, a right swipe by that row's swiper on
\* a target the requester liked).
OverlapPairs(user_id, target_id) ==
    {pair \in LikesOf(target_id) \X DOMAIN swipe_history :
        /\ pair[2] \in LikesBy(swipe_history[pair[1]].swiper_id)
        /\ \E k \in LikesBy(user_id) :
              swipe_history[k].target_id = swipe_history[pair[2]].target_id}

\* C10 as amended: with T the right-swipe rows on the candidate and R the
\* right-swipe rows by the requester (rows, not distinct identities), the
\* collaborative score is 0 when T is empty or R is empty, and otherwise
\* min(overlap / (|T| * |R|), 1), where overlap counts, for each row of T,
\* the right swipes of that row's swiper on targets the requester liked.
C10_RowOverlap ==
    RecPage =>
        \A i \in DOMAIN Recs :
            LET nT == Cardinality(LikesOf(Recs[i].target_user_id))
                nR == Cardinality(LikesBy(last.request.user_id))
                overlap == Cardinality(OverlapPairs(last.request.user_id,
                                                    Recs[i].target_user_id))
                score == Recs[i].collaborative_score
            IN  IF nT = 0 \/ nR = 0 THEN score = Zero
                ELSE IF overlap >= nT * nR THEN score = One
                ELSE score.n * (nT * nR) = overlap * score.d

\* A page with a candidate whose overlap exceeds |T| * |R|, so that the
\* score is cut to 1.
C10_Witness ==
    /\ RecPage
    /\ \E i \in DOMAIN Recs :
          Cardinality(OverlapPairs(last.request.user_id, Recs[i].target_user_id))
              > Cardinality(LikesOf(Recs[i].target_user_id))
                    * Cardinality(LikesBy(last.request.user_id))

\* The stored tech_stack of an identity that has a profile.
StackOf(id) == (CHOOSE p \in user_profiles : p.id = id).tech_stack

\* The technologies two stacks share.
Shared(a, b) == Cardinality(Range(a) \cap Range(b))

\* C11 as stated: the tech-overlap signal is symmetric: the score reported
\* with A as the requester's stack and B as the candidate's equals the score
\* computed with B as the requester's stack and A as the candidate's.
C11_TechOverlapSymmetric ==
    RecPage =>
        \A i \in DOMAIN Recs :
            Recs[i].tech_overlap_score =
                TechOverlapScore(StackOf(Recs[i].target_user_id),
                                 StackOf(last.request.user_id))

\* C11 as amended: the tech-overlap signal is symmetric up to its
\* normalisation by the requester's stack: the score with A as requester
\* times max(len(A), 1) and the score with B as requester times
\* max(len(B), 1) both equal the number of technologies A and B share.
C11_TechOverlapSharedCount ==
    RecPage =>
        \A i \in DOMAIN Recs :
            LET A == StackOf(last.request.user_id)
                B == StackOf(Recs[i].target_user_id)
            IN  /\ RMul(Recs[i].tech_overlap_score, Rat(Max(Len(A), 1), 1))
                       = Rat(Shared(A, B), 1)
                /\ RMul(TechOverlapScore(B, A), Rat(Max(Len(B), 1), 1))
                       = Rat(Shared(A, B), 1)

\* A returned candidate who shares a technology with the requester and whose
\* stack has another length than the requester's.
C11_Witness ==
    /\ RecPage
    /\ \E i \in DOMAIN Recs :
          /\ Recs[i].tech_overlap_score # Zero
          /\ Len(StackOf(Recs[i].target_user_id)) # Len(StackOf(last.request.user_id))

\* How often an identity's bio was encoded by the last call.
TimesEncoded(id) == Cardinality({k \in DOMAIN last.encoded : last.encoded[k] = id})

\* C12 as stated: with no invalidation in between, each identity's bio is
\* encoded at most once; in particular a single ranking call, during which
\* no profile changes, hands no identity's bio to the provider twice.
C12_EncodedAtMostOnce ==
    last.op = "get_recommendations" => \A id \in Users : TimesEncoded(id) <= 1

====
